---- MODULE Spec2Model ----
(***************************************************************************)
(* The conversation/message service of linagora.esn.chat                   *)
(* (backend/lib/conversation.js, kept as src/unnamed/part_000).            *)
(*                                                                         *)
(* The store is the two mongoose collections ChatConversation and          *)
(* ChatMessage.  Every service operation is a call in a slot of Calls: its *)
(* first action is the synchronous prefix of the function together with    *)
(* its first store operation, and every further action is one store        *)
(* operation together with the callback that runs on its completion.       *)
(* Store operations on one document are atomic; calls interleave between   *)
(* store operations.  findByIdAndUpdate / findOneAndUpdate hand the        *)
(* document as it was BEFORE the update to the callback, except where the  *)
(* code passes {new: true} (moderateConversation).                         *)
(***************************************************************************)
EXTENDS Integers, Sequences, FiniteSets, TLC

\* ------------------------------------------------------------------ bounds
MaxConvs == 2    \* conversations ever constructed
MaxMsgs  == 2    \* messages ever constructed
MaxCalls == 3    \* service calls ever started
MaxText  == 2    \* words and mentions in the text of a message
MaxEvents == 3   \* events delivered to and actions requested of the client

Users    == {"u1", "u2"}
Calls    == {"p", "q"}            \* calls that may be in flight together
NoSuchConv == 0                   \* an id no conversation ever has
ConvIds  == 1..MaxConvs

\* String(undefined): the key the read-counter update is written under when
\* the user id list handed to the helper is undefined
UndefinedKey == "undefined"

CONVERSATION_TYPE ==
  [CHANNEL |-> "channel", CONFIDENTIAL |-> "confidential", COMMUNITY |-> "community"]
NoCommunity == "-"                \* the community of a conversation tied to none
Communities == {"k1"}
NoName   == "-"
NoAvatar == "-"
NoUser   == "-"

\* CONSTANTS.DEFAULT_CHANNEL: the options of the lazily created channel
DEFAULT_CHANNEL ==
  [type |-> CONVERSATION_TYPE.CHANNEL, name |-> "general", members |-> <<>>,
   moderate |-> FALSE]

\* ------------------------------------------------------------ pure helpers
Max(a, b) == IF a >= b THEN a ELSE b

SeqToSet(s) == {s[k] : k \in 1..Len(s)}

\* _.uniq: the first occurrence of every element, in order
RECURSIVE Uniq(_)
Uniq(s) ==
  IF s = <<>> THEN <<>>
  ELSE LET r == Uniq(SubSeq(s, 1, Len(s) - 1))
           e == s[Len(s)]
       IN IF e \in SeqToSet(r) THEN r ELSE Append(r, e)

\* variant: $push, which appends whatever is there
AddToSet_Push(s, xs) == s \o xs

\* $addToSet {$each: xs}: appends every x not yet present
RECURSIVE AddToSet(_, _)
AddToSet(s, xs) ==
  IF xs = <<>> THEN s
  ELSE AddToSet(IF xs[1] \in SeqToSet(s) THEN s ELSE Append(s, xs[1]), Tail(xs))

\* $pullAll / $pull: removes every occurrence of every x
PullAll(s, xs) == SelectSeq(s, LAMBDA e : e \notin SeqToSet(xs))

\* A message text is a sequence of tokens: a word, or "@" followed by a
\* 24-hex-digit identifier written in lower or upper case.
Word       == [at |-> FALSE, id |-> NoUser, upper |-> FALSE]
At(u)      == [at |-> TRUE, id |-> u, upper |-> FALSE]
AtUpper(u) == [at |-> TRUE, id |-> u, upper |-> TRUE]

\* text.match(/@[a-fA-F0-9]{24}/g), _.uniq on the matched strings, then
\* new ObjectId(...), which reads the hex digits without regard to case
parseMention(text) ==
  LET matched == SelectSeq(text, LAMBDA t : t.at)
      u == Uniq(matched)
  IN [k \in 1..Len(u) |-> u[k].id]

\* ------------------------------------------------------------- documents
NoLastMessage == [text |-> <<>>, date |-> 0, creator |-> NoUser, user_mentions |-> <<>>]

\* {}: a read-counter map with no entry
NoCounters == [k \in {} |-> 0]

\* the topic {value, creator, last_set} of a conversation that was given none
NoTopic == [value |-> "-", creator |-> NoUser, last_set |-> 0]

\* null / undefined where a conversation document is expected
NullDoc ==
  [exists |-> FALSE, id |-> NoSuchConv, type |-> CONVERSATION_TYPE.CHANNEL,
   moderate |-> FALSE, name |-> NoName, avatar |-> NoAvatar, members |-> <<>>,
   numOfMessage |-> 0, numOfReadedMessage |-> NoCounters, last_message |-> NoLastMessage,
   topic |-> NoTopic, community |-> NoCommunity]

NoMsg ==
  [id |-> 0, channel |-> NoSuchConv, creator |-> NoUser, text |-> <<>>,
   user_mentions |-> <<>>, creation |-> 0, moderate |-> FALSE]

\* variant: $min written where $max is meant
MinOperation(counters, keys, v) ==
  [k \in (DOMAIN counters) \cup keys |->
     IF k \in keys
       THEN IF k \in DOMAIN counters /\ counters[k] < v THEN counters[k] ELSE v
       ELSE counters[k]]

\* $max {numOfReadedMessage.<k>: v} for every k of keys
MaxOperation(counters, keys, v) ==
  [k \in (DOMAIN counters) \cup keys |->
     IF k \in keys
       THEN IF k \in DOMAIN counters THEN Max(counters[k], v) ELSE v
       ELSE counters[k]]

\* variant: the counter is left in place
UnsetOperation_Keep(counters, k) == counters

\* $unset {numOfReadedMessage.<k>: ''}
UnsetOperation(counters, k) ==
  [j \in (DOMAIN counters) \ {k} |-> counters[j]]

\* ------------------------------------------------- the client's local store
\* The client (frontend) keeps a local store of conversations, which the
\* listener service feeds from inbound events and the actions service from
\* the results of remote calls.
CHAT_CONVERSATION_TYPE == [OPEN |-> "open", CONFIDENTIAL |-> "confidential"]
SessionUser == "u1"               \* session.user._id
NoType  == "-"
NoValue == "-"

\* a conversation the local store does not hold
Absent ==
  [present |-> FALSE, type |-> NoType, creator |-> NoUser, unreadMessageCount |-> 0,
   mentionCount |-> 0, last_message |-> NoLastMessage, topic |-> NoValue,
   canScrollDown |-> FALSE]

\* no action of the actions service is in progress
NoAction == [name |-> "none", conv |-> NoSuchConv, remote |-> "none", promise |-> "none"]
\* no event has been delivered yet
NoEvent ==
  [kind |-> "none", id |-> NoSuchConv, type |-> NoType, creator |-> NoUser,
   text |-> <<>>, mentionsGiven |-> FALSE, user_mentions |-> <<>>, creation |-> 0]

ClientInit ==
  [store |-> [c \in ConvIds |-> Absent], action |-> NoAction, event |-> NoEvent,
   delivered |-> 0]

VARIABLES convs, messages, calls, nextConv, nextMsg, started, faulty, client

vars == <<convs, messages, calls, nextConv, nextMsg, started, faulty, client>>

\* Date.now(): strictly larger at every construction of a document
Now == nextConv + nextMsg

\* what an exception that left a call is: none, an Error the function throws
\* itself, or the TypeError of a property access on null / undefined
NoError == "none"

\* findConversation's options.name: undefined (any name or none); null is
\* NoName, the name of a conversation that has none
AnyName == "undefined"

\* getMessages' query: limit 0 stands for a limit that is missing or zero
NoQuery == [moderate |-> FALSE, limit |-> 0, offset |-> 0]

NoFindOptions ==
  [typeGiven |-> FALSE, type |-> {}, ignoreMemberFilterForChannel |-> FALSE,
   exactMembersMatch |-> FALSE, membersGiven |-> FALSE, members |-> <<>>,
   name |-> AnyName, moderate |-> FALSE]

IdleCall ==
  [op |-> "idle", pc |-> "idle", conv |-> NoSuchConv, users |-> <<>>, del |-> <<>>,
   name |-> NoName, avatar |-> NoAvatar, moderate |-> FALSE, msg |-> NoMsg,
   keys |-> {}, snap |-> NullDoc, res |-> {}, err |-> FALSE, failed |-> FALSE,
   pub |-> <<>>, solo |-> TRUE, opts |-> NoFindOptions, list |-> <<>>,
   queried |-> FALSE, thrown |-> NoError, topic |-> NoTopic, query |-> NoQuery]

Init ==
  /\ convs = [c \in ConvIds |-> NullDoc]
  /\ messages = {}
  /\ calls = [i \in Calls |-> IdleCall]
  /\ nextConv = 1
  /\ nextMsg = 1
  /\ started = 0
  /\ faulty = FALSE
  /\ client = ClientInit

\* --------------------------------------------------------- call plumbing
\* The ids a caller can hold: those of conversations saved so far (deleted
\* ones included) and one id that names no conversation.  The id of a default
\* channel that getChannels has constructed and not yet saved is known to
\* no caller.
Targets ==
  {NoSuchConv} \cup
  {c \in ConvIds : /\ c < nextConv
                   /\ \A j \in Calls : ~(calls[j].pc = "gc_create" /\ calls[j].conv = c)}

\* the options createConversation is called with
Options ==
  {[type |-> CONVERSATION_TYPE.CHANNEL, name |-> NoName, members |-> <<>>,
    moderate |-> FALSE],
   [type |-> CONVERSATION_TYPE.CONFIDENTIAL, name |-> NoName, members |-> <<"u1">>,
    moderate |-> FALSE],
   [type |-> CONVERSATION_TYPE.CONFIDENTIAL, name |-> NoName,
    members |-> <<"u1", "u2">>, moderate |-> FALSE]}

\* whether a store operation fails: only a faulty store fails
StoreOutcomes == IF faulty THEN BOOLEAN ELSE {FALSE}

\* the (creator, text) pairs createMessage is called with
Sends == {[creator |-> "u1", text |-> <<Word>>],
          [creator |-> "u2", text |-> <<At("u1"), At("u1")>>]}

\* the user id(s) makeAllMessageReadedForAnUser is called with
ReaderSets == {{"u1"}, {"u1", "u2"}}
\* the modifications updateConversation is called with
Modifications ==
  {[newMembers |-> <<>>, deleteMembers |-> <<>>, name |-> "renamed", avatar |-> "avatar"],
   [newMembers |-> <<"u2">>, deleteMembers |-> <<>>, name |-> NoName, avatar |-> NoAvatar],
   [newMembers |-> <<>>, deleteMembers |-> <<"u1">>, name |-> NoName, avatar |-> NoAvatar],
   [newMembers |-> <<"u2">>, deleteMembers |-> <<"u1">>, name |-> NoName, avatar |-> NoAvatar],
   [newMembers |-> <<"u1">>, deleteMembers |-> <<"u2">>, name |-> NoName, avatar |-> NoAvatar]}

\* A completed call hands its answer to its caller before anything else
\* happens: no call acts while another one sits in "done" or "threw".
NoneCompleted == \A j \in Calls : calls[j].pc \notin {"done", "threw"}

\* A call starts in a free slot; slot q is used only while p is taken.
CanStart(i) ==
  /\ NoneCompleted
  /\ calls[i].pc = "idle"
  /\ started < MaxCalls
  /\ (i = "q" => calls["p"].pc # "idle")

\* call i is in flight, about to take the step named pc
At_(i, pc) == NoneCompleted /\ calls[i].pc = pc

\* The step of call i leaves it as rec; every other call that is not idle
\* has seen another call act (solo: no other call acted since the start).
Step(i, rec) ==
  calls' = [j \in Calls |->
              IF j = i THEN rec
              ELSE IF calls[j].pc = "idle" THEN calls[j]
              ELSE [calls[j] EXCEPT !.solo = FALSE]]

\* callback(err)
CallbackError(call) == [call EXCEPT !.pc = "done", !.err = TRUE]
\* an exception leaves the callback of the store operation: the caller's
\* callback is never invoked
Throw(call) == [call EXCEPT !.pc = "threw", !.thrown = "TypeError"]
\* throw new Error(...) in the synchronous part of a function
ThrowError(call) == [call EXCEPT !.pc = "threw", !.thrown = "Error"]

Event(topic, conversation, deleteMembers) ==
  [topic |-> topic, conversation |-> conversation, deleteMembers |-> deleteMembers]

\* Model.findById / findOne({_id: id}): the document or null
findById(id) == IF id \in ConvIds /\ convs[id].exists THEN convs[id] ELSE NullDoc

\* findByIdAndUpdate / findOneAndUpdate without upsert: the store after
\* the update that leaves document id as updated; nothing when it is absent
Updated(id, updated) ==
  IF id \in ConvIds /\ convs[id].exists
    THEN [convs EXCEPT ![id] = updated]
    ELSE convs

\* -------------------------------------------------------- createConversation
NewConversation(id, options) ==
  [exists |-> TRUE, id |-> id, type |-> options.type, moderate |-> options.moderate,
   name |-> options.name, avatar |-> NoAvatar, members |-> options.members,
   numOfMessage |-> 0, numOfReadedMessage |-> NoCounters,
   last_message |-> [NoLastMessage EXCEPT !.date = Now], topic |-> NoTopic,
   community |-> IF "community" \in DOMAIN options THEN options.community
                 ELSE NoCommunity]

\* variant: the event is published whatever the outcome of save and populate
SaveConversation_PublishAlways(call, conversation, fail) ==
  [(IF fail THEN CallbackError([call EXCEPT !.failed = TRUE])
    ELSE [call EXCEPT !.pc = "done", !.res = {conversation}])
   EXCEPT !.pub = Append(@, Event("creation", conversation, <<>>))]

\* the waterfall after conversation.save and Conversation.populate, one of
\* which may have failed: publish and callback, or callback(err)
SaveConversation(call, conversation, fail) ==
  IF fail THEN CallbackError([call EXCEPT !.failed = TRUE])
  ELSE [call EXCEPT !.pc = "done", !.res = {conversation},
          !.pub = Append(@, Event("creation", conversation, <<>>))]

\* createConversation called with one of the given options
createConversationWith(i, given) ==
  /\ CanStart(i)
  /\ nextConv <= MaxConvs
  /\ \E options \in given, fail \in StoreOutcomes, populateFail \in StoreOutcomes :
       LET conversation == NewConversation(nextConv, options)
           call == [IdleCall EXCEPT !.op = "createConversation", !.conv = nextConv]
       IN /\ fail => ~populateFail
          /\ convs' = IF fail THEN convs ELSE [convs EXCEPT ![nextConv] = conversation]
          /\ Step(i, SaveConversation(call, conversation, fail \/ populateFail))
  /\ nextConv' = nextConv + 1
  /\ started' = started + 1
  /\ UNCHANGED <<messages, nextMsg, faulty, client>>

createConversation(i) == createConversationWith(i, Options)

\* ------------------------------------------ makeAllMessageReadedForAnUser
\* The synchronous part of makeAllMessageReadedForAnUserHelper: builds the
\* $max operation from conversation.numOfMessage (a TypeError when the
\* conversation is null or undefined) and issues the update.
makeAllMessageReadedForAnUserHelper(call, keys, conversation) ==
  IF ~conversation.exists THEN Throw(call)
  ELSE [call EXCEPT !.pc = "mark", !.keys = keys, !.snap = conversation]

\* variant: the helper adds one for the message being created, whoever calls
MarkValue_PlusOne(conversation) == conversation.numOfMessage + 1

\* The value written under every key: the message count of the document
\* handed to the helper
MarkValue(conversation) == conversation.numOfMessage

\* The helper's findByIdAndUpdate(conversation._id, {$max: ...}) and the
\* callback it was given
makeAllMessageReadedForAnUserHelper_update(i) ==
  /\ At_(i, "mark")
  /\ \E fail \in StoreOutcomes :
       LET call == calls[i]
           Upd(d) == [d EXCEPT !.numOfReadedMessage =
                        MaxOperation(@, call.keys, MarkValue(call.snap))]
       IN /\ convs' = IF fail THEN convs
             ELSE Updated(call.snap.id, Upd(findById(call.snap.id)))
          /\ Step(i, IF fail THEN CallbackError([call EXCEPT !.failed = TRUE])
                     ELSE [call EXCEPT !.pc = "done",
                             !.res = IF call.op = "createMessage" THEN {}
                                     ELSE {findById(call.snap.id)}])
  /\ UNCHANGED <<messages, nextConv, nextMsg, started, faulty, client>>

makeAllMessageReadedForAnUser(i) ==
  /\ CanStart(i)
  /\ \E conversationId \in Targets, userId \in ReaderSets, fail \in StoreOutcomes :
       LET call == [IdleCall EXCEPT !.op = "makeAllMessageReadedForAnUser",
                      !.conv = conversationId, !.keys = userId]
       IN Step(i, IF fail THEN CallbackError([call EXCEPT !.failed = TRUE])
                  ELSE makeAllMessageReadedForAnUserHelper(call, userId,
                                                           findById(conversationId)))
  /\ started' = started + 1
  /\ UNCHANGED <<convs, messages, nextConv, nextMsg, faulty, client>>

\* ------------------------------------------------------------ createMessage
LastMessage(message) ==
  [text |-> message.text, date |-> message.creation, creator |-> message.creator,
   user_mentions |-> message.user_mentions]

\* parseMention, new ChatMessage(message), chatMessage.save, for a message
\* that is one of sends
createMessageWith(i, sends) ==
  /\ CanStart(i)
  /\ nextMsg <= MaxMsgs
  /\ \E channel \in Targets, send \in sends, fail \in StoreOutcomes :
       LET message == [id |-> nextMsg, channel |-> channel, creator |-> send.creator,
                       text |-> send.text, user_mentions |-> parseMention(send.text),
                       creation |-> Now, moderate |-> FALSE]
           call == [IdleCall EXCEPT !.op = "createMessage", !.conv = channel,
                      !.msg = message]
       IN /\ messages' = IF fail THEN messages ELSE messages \cup {message}
          /\ Step(i, IF fail THEN CallbackError([call EXCEPT !.failed = TRUE])
                     ELSE [call EXCEPT !.pc = "cm_update"])
  /\ nextMsg' = nextMsg + 1
  /\ started' = started + 1
  /\ UNCHANGED <<convs, nextConv, faulty, client>>

createMessage(i) == createMessageWith(i, Sends)

\* variant: the $inc is left out of the update
CreateMessageUpdate_NoInc(message, d) ==
  [d EXCEPT !.last_message = LastMessage(message)]

\* The update of the owning conversation: $set last_message, $inc numOfMessage
CreateMessageUpdate(message, d) ==
  [d EXCEPT !.last_message = LastMessage(message),
            !.numOfMessage = @ + 1]

\* findByIdAndUpdate(message.channel, ...) and its callback, which logs an
\* error and goes on to the helper with the document it was handed
createMessage_update(i) ==
  /\ At_(i, "cm_update")
  /\ \E fail \in StoreOutcomes :
       LET call == calls[i]
           Upd(d) == CreateMessageUpdate(call.msg, d)
           conversation == IF fail THEN NullDoc ELSE findById(call.conv)
       IN /\ convs' = IF fail THEN convs
             ELSE Updated(call.conv, Upd(findById(call.conv)))
          /\ Step(i, makeAllMessageReadedForAnUserHelper(
                       [call EXCEPT !.failed = fail], {call.msg.creator}, conversation))
  /\ UNCHANGED <<messages, nextConv, nextMsg, started, faulty, client>>

\* -------------------------------------------------- addMemberToConversation
\* variant: nothing is published while the counter update is pending
MemberAdded_Unpublished(helped, conversation) == helped

\* channelAddMember.publish(conversation), right after the helper has issued
\* its update
MemberAdded(helped, conversation) ==
  [helped EXCEPT !.pub = Append(@, Event("member_added", conversation, <<>>))]

addMemberToConversation(i) ==
  /\ CanStart(i)
  /\ \E conversationId \in Targets, userId \in Users, fail \in StoreOutcomes :
       LET call == [IdleCall EXCEPT !.op = "addMemberToConversation",
                      !.conv = conversationId, !.users = <<userId>>]
           Upd(d) == [d EXCEPT !.members = AddToSet(@, <<userId>>)]
           conversation == findById(conversationId)
           helped == makeAllMessageReadedForAnUserHelper(call, {userId}, conversation)
       IN /\ convs' = IF fail THEN convs
             ELSE Updated(conversationId, Upd(findById(conversationId)))
          /\ Step(i, IF fail THEN CallbackError([call EXCEPT !.failed = TRUE])
                     ELSE IF helped.pc = "threw" THEN helped
                     ELSE MemberAdded(helped, conversation))
  /\ started' = started + 1
  /\ UNCHANGED <<messages, nextConv, nextMsg, faulty, client>>

\* ------------------------------------------------------- updateConversation
\* mongoModifications.$addToSet / $pullAll are set for non-empty lists only
HasAdd(call)  == Len(call.users) > 0
HasPull(call) == Len(call.del) > 0
\* both: the addition becomes nextMongoModification, a second write
TwoWrites(call) == HasAdd(call) /\ HasPull(call)

\* variant: the addition is the first write and the removal is left for later
FirstModification_AddFirst(call, d) ==
  [d EXCEPT !.members = IF HasAdd(call) THEN AddToSet(@, call.users)
                        ELSE IF HasPull(call) THEN PullAll(@, call.del)
                        ELSE @,
            !.name = IF call.name # NoName THEN call.name ELSE @,
            !.avatar = IF call.avatar # NoAvatar THEN call.avatar ELSE @]

\* the first write: $pullAll, $addToSet unless it was moved to the second
\* write, and $set of name and avatar
FirstModification(call, d) ==
  [d EXCEPT !.members = IF HasPull(call) THEN PullAll(@, call.del)
                        ELSE IF HasAdd(call) THEN AddToSet(@, call.users)
                        ELSE @,
            !.name = IF call.name # NoName THEN call.name ELSE @,
            !.avatar = IF call.avatar # NoAvatar THEN call.avatar ELSE @]

\* variant: the addition is dropped when it is split from the first write
NextModification_Lost(call, d) == d

\* nextMongoModification: {$addToSet: ...}
NextModification(call, d) == [d EXCEPT !.members = AddToSet(@, call.users)]

\* The user ids done() hands to the helper:
\* (nextMongoModification || mongoModifications).$addToSet.$each, where
\* $addToSet is {members: {$each: [...]}}, so that the value is undefined
\* and the helper writes under String(undefined)
DoneMarkKeys(call) == {UndefinedKey}

\* done(callback, err, conversation): populate, publish, then the helper or
\* the callback
UpdateDone(call, err, conversation, populateFail) ==
  IF err THEN CallbackError(call)
  ELSE IF ~conversation.exists THEN Throw(call)
  ELSE IF populateFail THEN CallbackError([call EXCEPT !.failed = TRUE])
  ELSE LET published == [call EXCEPT
                           !.pub = Append(@, Event("update", conversation, call.del))]
       IN IF HasAdd(call)
            THEN makeAllMessageReadedForAnUserHelper(published, DoneMarkKeys(call),
                                                     conversation)
            ELSE [published EXCEPT !.pc = "done", !.res = {conversation}]

updateConversation(i) ==
  /\ CanStart(i)
  /\ \E conversationId \in Targets, modifications \in Modifications,
        fail \in StoreOutcomes, populateFail \in StoreOutcomes :
       LET call == [IdleCall EXCEPT !.op = "updateConversation", !.conv = conversationId,
                      !.users = modifications.newMembers,
                      !.del = modifications.deleteMembers,
                      !.name = modifications.name, !.avatar = modifications.avatar,
                      !.failed = fail]
           Upd(d) == FirstModification(call, d)
           conversation == findById(conversationId)
       IN /\ fail => ~populateFail
          /\ convs' = IF fail THEN convs
                      ELSE Updated(conversationId, Upd(findById(conversationId)))
          /\ Step(i, IF TwoWrites(call) THEN [call EXCEPT !.pc = "uc_next"]
                     ELSE UpdateDone(call, fail, conversation, populateFail))
  /\ started' = started + 1
  /\ UNCHANGED <<messages, nextConv, nextMsg, faulty, client>>

\* the second write, issued whatever the outcome of the first
updateConversation_next(i) ==
  /\ At_(i, "uc_next")
  /\ \E fail \in StoreOutcomes, populateFail \in StoreOutcomes :
       LET call == calls[i]
           Upd(d) == NextModification(call, d)
           conversation == findById(call.conv)
       IN /\ fail => ~populateFail
          /\ convs' = IF fail THEN convs
                      ELSE Updated(call.conv, Upd(findById(call.conv)))
          /\ Step(i, UpdateDone([call EXCEPT !.failed = @ \/ fail], fail, conversation,
                                populateFail))
  /\ UNCHANGED <<messages, nextConv, nextMsg, started, faulty, client>>

\* ----------------------------------------------- updateCommunityConversation
\* the modifications updateCommunityConversation is called with; newMembers
\* and deleteMembers may be missing
CommunityModifications ==
  {[newGiven |-> TRUE, newMembers |-> <<"u2", "u2">>, deleteGiven |-> FALSE,
    deleteMembers |-> <<>>, title |-> NoName],
   [newGiven |-> TRUE, newMembers |-> <<"u1">>, deleteGiven |-> FALSE,
    deleteMembers |-> <<>>, title |-> "renamed"],
   [newGiven |-> FALSE, newMembers |-> <<>>, deleteGiven |-> TRUE,
    deleteMembers |-> <<"u1">>, title |-> NoName],
   [newGiven |-> TRUE, newMembers |-> <<"u2">>, deleteGiven |-> TRUE,
    deleteMembers |-> <<"u1">>, title |-> NoName]}

\* $addToSet and $pullAll on members in one update: the store refuses the
\* update with an error
ConflictingUpdate(modifications) ==
  modifications.newGiven /\ modifications.deleteGiven

\* the documents findOneAndUpdate({type: COMMUNITY, community}) may pick
CommunityConversations(communityId) ==
  {c \in ConvIds : /\ convs[c].exists
                   /\ convs[c].type = CONVERSATION_TYPE.COMMUNITY
                   /\ convs[c].community = communityId}

\* $addToSet, $pullAll and $set name in a single update
CommunityModification(modifications, d) ==
  [d EXCEPT !.members = IF modifications.newGiven
                          THEN AddToSet(@, modifications.newMembers)
                        ELSE IF modifications.deleteGiven
                          THEN PullAll(@, modifications.deleteMembers)
                        ELSE @,
            !.name = IF modifications.title # NoName THEN modifications.title ELSE @]

\* the callback of the update: the helper is handed
\* mongoModifications.$addToSet.$each, which is undefined
CommunityUpdated(call, modifications, err, conversation) ==
  IF err THEN CallbackError(call)
  ELSE IF modifications.newGiven
    THEN makeAllMessageReadedForAnUserHelper(call, {UndefinedKey}, conversation)
  ELSE [call EXCEPT !.pc = "done", !.res = {conversation}]

updateCommunityConversation(i) ==
  /\ CanStart(i)
  /\ \E communityId \in Communities, modifications \in CommunityModifications,
        fail \in StoreOutcomes :
       \E picked \in IF CommunityConversations(communityId) = {} THEN {NoSuchConv}
                      ELSE CommunityConversations(communityId) :
         LET call == [IdleCall EXCEPT !.op = "updateCommunityConversation",
                        !.conv = picked, !.users = modifications.newMembers,
                        !.del = modifications.deleteMembers,
                        !.name = modifications.title, !.failed = fail]
             err == fail \/ ConflictingUpdate(modifications)
             conversation == findById(picked)
         IN /\ convs' = IF err THEN convs
                        ELSE Updated(picked, CommunityModification(modifications,
                                                                   findById(picked)))
            /\ Step(i, CommunityUpdated(call, modifications, err, conversation))
  /\ started' = started + 1
  /\ UNCHANGED <<messages, nextConv, nextMsg, faulty, client>>

\* --------------------------------------------- removeMemberFromConversation
removeMemberFromConversation(i) ==
  /\ CanStart(i)
  /\ \E conversationId \in Targets, userId \in Users, fail \in StoreOutcomes :
       LET call == [IdleCall EXCEPT !.op = "removeMemberFromConversation",
                      !.conv = conversationId, !.users = <<userId>>]
           Upd(d) == [d EXCEPT !.members = PullAll(@, <<userId>>),
                               !.numOfReadedMessage = UnsetOperation(@, userId)]
           conversation == findById(conversationId)
       IN /\ convs' = IF fail THEN convs
             ELSE Updated(conversationId, Upd(findById(conversationId)))
          /\ Step(i, IF fail THEN CallbackError([call EXCEPT !.failed = TRUE])
                     ELSE [call EXCEPT !.pc = "done", !.res = {conversation},
                             !.pub = Append(@, Event("update", conversation, <<userId>>))])
  /\ started' = started + 1
  /\ UNCHANGED <<messages, nextConv, nextMsg, faulty, client>>

\* ------------------------------------------------------- deleteConversation
\* findOneAndRemove({_id: channel, members: userId}): the removed document,
\* or null when no document matches
deleteConversation(i) ==
  /\ CanStart(i)
  /\ \E channel \in Targets, userId \in Users, fail \in StoreOutcomes :
       LET call == [IdleCall EXCEPT !.op = "deleteConversation", !.conv = channel,
                      !.users = <<userId>>]
           found == findById(channel)
           deleteResult == IF found.exists /\ userId \in SeqToSet(found.members)
                             THEN found ELSE NullDoc
       IN /\ convs' = IF ~fail /\ deleteResult.exists
                        THEN [convs EXCEPT ![channel] = NullDoc] ELSE convs
          /\ Step(i, IF fail THEN CallbackError([call EXCEPT !.failed = TRUE])
                     ELSE [call EXCEPT !.pc = "dc_remove", !.snap = deleteResult,
                             !.pub = Append(@, Event("deletion", deleteResult, <<>>))])
  /\ started' = started + 1
  /\ UNCHANGED <<messages, nextConv, nextMsg, faulty, client>>

\* The messages ChatMessage.remove({channel: channel}) removes
RemovedMessages(call) == {m \in messages : m.channel = call.conv}

deleteConversation_remove(i) ==
  /\ At_(i, "dc_remove")
  /\ \E fail \in StoreOutcomes :
       LET call == calls[i]
       IN /\ messages' = IF fail THEN messages ELSE messages \ RemovedMessages(call)
          /\ Step(i, [call EXCEPT !.pc = "done", !.err = fail, !.failed = fail,
                        !.res = {call.snap}])
  /\ UNCHANGED <<convs, nextConv, nextMsg, started, faulty, client>>

\* -------------------------------------------------------------- getChannels
\* Conversation.find({type: CHANNEL, moderate: Boolean(options.moderate)})
FindChannels(moderate) ==
  {convs[c] : c \in {k \in ConvIds : /\ convs[k].exists
                                      /\ convs[k].type = CONVERSATION_TYPE.CHANNEL
                                      /\ convs[k].moderate = moderate}}

\* variant: the default channel is created on every call
NeedsDefault_Always(channels) == TRUE

\* channels.length === 0: the default channel is created
NeedsDefault(channels) == channels = {}

getChannels(i) ==
  /\ CanStart(i)
  /\ \E moderate \in BOOLEAN, fail \in StoreOutcomes :
       LET call == [IdleCall EXCEPT !.op = "getChannels", !.moderate = moderate,
                      !.failed = fail]
           channels == IF fail THEN {} ELSE FindChannels(moderate)
       IN IF NeedsDefault(channels)
            THEN /\ nextConv <= MaxConvs
                 /\ Step(i, [call EXCEPT !.pc = "gc_create", !.conv = nextConv,
                               !.snap = NewConversation(nextConv, DEFAULT_CHANNEL)])
                 /\ nextConv' = nextConv + 1
            ELSE /\ Step(i, [call EXCEPT !.pc = "done", !.res = channels])
                 /\ nextConv' = nextConv
  /\ started' = started + 1
  /\ UNCHANGED <<convs, messages, nextMsg, faulty, client>>

\* createConversation(CONSTANTS.DEFAULT_CHANNEL, ...) and its callback
getChannels_create(i) ==
  /\ At_(i, "gc_create")
  /\ \E fail \in StoreOutcomes, populateFail \in StoreOutcomes :
       LET call == calls[i]
       IN /\ fail => ~populateFail
          /\ convs' = IF fail THEN convs ELSE [convs EXCEPT ![call.conv] = call.snap]
          /\ Step(i, SaveConversation([call EXCEPT !.failed = @ \/ fail \/ populateFail],
                                      call.snap, fail \/ populateFail))
  /\ UNCHANGED <<messages, nextConv, nextMsg, started, faulty, client>>

\* ------------------------------------------------------ moderateConversation
moderateConversation(i) ==
  /\ CanStart(i)
  /\ \E conversationId \in Targets, moderate \in {TRUE}, fail \in StoreOutcomes :
       LET call == [IdleCall EXCEPT !.op = "moderateConversation",
                      !.conv = conversationId, !.moderate = moderate]
           Upd(d) == [d EXCEPT !.moderate = moderate]
           after == IF findById(conversationId).exists
                      THEN Upd(findById(conversationId)) ELSE NullDoc
       IN /\ convs' = IF fail THEN convs
             ELSE Updated(conversationId, Upd(findById(conversationId)))
          /\ Step(i, IF fail THEN CallbackError([call EXCEPT !.failed = TRUE])
                     ELSE [call EXCEPT !.pc = "done", !.res = {after}])
  /\ started' = started + 1
  /\ UNCHANGED <<messages, nextConv, nextMsg, faulty, client>>

\* --------------------------------------------------------------- updateTopic
\* the topics updateTopic is called with
Topics == {[value |-> "a", creator |-> "u1", last_set |-> 1],
           [value |-> "b", creator |-> "u2", last_set |-> 2]}

\* variant: the message carries the topic argument of the call
TopicOfMessage_Argument(conversation, topic) == topic

\* message.topic: read from the document the update hands to its callback
TopicOfMessage(conversation, topic) == conversation.topic

\* the message published on channelTopicUpdateTopic
TopicMessage(conversation, topic) ==
  [topic |-> "topic",
   message |-> [channel |-> conversation.id, user |-> topic.creator,
                topic |-> TopicOfMessage(conversation, topic), text |-> topic.value]]

\* findByIdAndUpdate({$set: {topic}}) without {new: true}: the callback gets
\* the document as it was before the update, null when there is none and
\* undefined with an error; it reads conversation._id before looking at err
updateTopic(i) ==
  /\ CanStart(i)
  /\ \E conversationId \in Targets, topic \in Topics, fail \in StoreOutcomes :
       LET call == [IdleCall EXCEPT !.op = "updateTopic", !.conv = conversationId,
                      !.topic = topic]
           Upd(d) == [d EXCEPT !.topic = topic]
           conversation == findById(conversationId)
       IN /\ convs' = IF fail THEN convs
             ELSE Updated(conversationId, Upd(findById(conversationId)))
          /\ Step(i, IF fail THEN Throw([call EXCEPT !.failed = TRUE])
                     ELSE IF ~conversation.exists THEN Throw(call)
                     ELSE [call EXCEPT !.pc = "done", !.res = {conversation},
                             !.pub = Append(@, TopicMessage(conversation, topic))])
  /\ started' = started + 1
  /\ UNCHANGED <<messages, nextConv, nextMsg, faulty, client>>

\* ---------------------------------------------------------- moderateMessage
\* the ids a caller can hold: those of the saved messages and one of none
MessageTargets == {NoMsg.id} \cup {m.id : m \in messages}

\* ChatMessage.findByIdAndUpdate(messageId, {$set: {moderate}}, {new: true})
moderateMessage(i) ==
  /\ CanStart(i)
  /\ \E messageId \in MessageTargets, moderate \in {TRUE}, fail \in StoreOutcomes :
       LET call == [IdleCall EXCEPT !.op = "moderateMessage", !.moderate = moderate]
           found == {m \in messages : m.id = messageId}
           after == {[m EXCEPT !.moderate = moderate] : m \in found}
       IN /\ messages' = IF fail THEN messages ELSE (messages \ found) \cup after
          /\ Step(i, IF fail THEN CallbackError([call EXCEPT !.failed = TRUE])
                     ELSE [call EXCEPT !.pc = "done",
                             !.msg = IF after = {} THEN NoMsg ELSE CHOOSE m \in after : TRUE])
  /\ started' = started + 1
  /\ UNCHANGED <<convs, nextConv, nextMsg, faulty, client>>

\* -------------------------------------------------------------- getMessages
\* +query.limit || 20
DefaultLimit == 20

\* the queries getMessages is called with
Queries == [moderate : BOOLEAN, limit : {0, 1}, offset : {0, 1}]

\* q = {channel: conversationId, moderate: false}
MessagesQuery(conversationId, query) ==
  {m \in messages : m.channel = conversationId /\ m.moderate = FALSE}

\* sort('-timestamps.creation')
RECURSIVE SortByCreation(_)
SortByCreation(msgs) ==
  IF msgs = {} THEN <<>>
  ELSE LET m == CHOOSE x \in msgs : \A y \in msgs : x.creation >= y.creation
       IN <<m>> \o SortByCreation(msgs \ {m})

\* skip(+query.offset || 0), limit(+query.limit || 20)
Page(sorted, query) ==
  LET limit == IF query.limit = 0 THEN DefaultLimit ELSE query.limit
      first == query.offset + 1
      last  == IF query.offset + limit < Len(sorted) THEN query.offset + limit
               ELSE Len(sorted)
  IN IF first > Len(sorted) THEN <<>> ELSE SubSeq(sorted, first, last)

\* result.reverse()
Reverse(s) == [k \in 1..Len(s) |-> s[Len(s) + 1 - k]]

\* A call that only reads: it leaves the store as it is, so that it is not
\* counted among the MaxCalls calls.
CanStartQuery(i) ==
  /\ NoneCompleted
  /\ calls[i].pc = "idle"
  /\ (i = "q" => calls["p"].pc # "idle")

getMessages(i) ==
  /\ CanStartQuery(i)
  /\ \E conversation \in Targets, query \in Queries, fail \in StoreOutcomes :
       LET call == [IdleCall EXCEPT !.op = "getMessages", !.conv = conversation,
                      !.query = query]
           result == Page(SortByCreation(MessagesQuery(conversation, query)), query)
       IN Step(i, IF fail THEN CallbackError([call EXCEPT !.failed = TRUE])
                  ELSE [call EXCEPT !.pc = "done", !.list = Reverse(result)])
  /\ UNCHANGED <<convs, messages, nextConv, nextMsg, started, faulty, client>>

\* ---------------------------------------------------------- findConversation
\* the options findConversation is called with
FindOptions ==
  [typeGiven : {TRUE}, type : {{CONVERSATION_TYPE.CHANNEL}, {CONVERSATION_TYPE.CONFIDENTIAL}},
   ignoreMemberFilterForChannel : BOOLEAN, exactMembersMatch : BOOLEAN,
   membersGiven : {TRUE}, members : {<<"u1">>, <<"u1", "u2">>},
   name : {AnyName, NoName, DEFAULT_CHANNEL.name}, moderate : BOOLEAN]
  \cup
  [typeGiven : {FALSE}, type : {{}},
   ignoreMemberFilterForChannel : BOOLEAN, exactMembersMatch : BOOLEAN,
   membersGiven : {FALSE}, members : {<<>>},
   name : {AnyName}, moderate : BOOLEAN]
  \cup
  [typeGiven : {FALSE}, type : {{}},
   ignoreMemberFilterForChannel : BOOLEAN, exactMembersMatch : BOOLEAN,
   membersGiven : {TRUE}, members : {<<"u2">>},
   name : {AnyName}, moderate : {FALSE}]

\* variant: only exactMembersMatch is checked against missing members
ConfigurationError_ExactOnly(options) ==
  options.exactMembersMatch /\ ~options.membersGiven

\* the two checks that throw before the request is built
ConfigurationError(options) ==
  \/ options.exactMembersMatch /\ ~options.membersGiven
  \/ options.ignoreMemberFilterForChannel /\ ~options.membersGiven

\* variant: $size is never added
MembersFilter_NoSize(d, options) ==
  options.membersGiven => SeqToSet(options.members) \subseteq SeqToSet(d.members)

\* request.members: {$all: members}, with $size: members.length when
\* exactMembersMatch
MembersFilter(d, options) ==
  options.membersGiven =>
    /\ SeqToSet(options.members) \subseteq SeqToSet(d.members)
    /\ options.exactMembersMatch => Len(d.members) = Len(options.members)

\* request.type: {$in: type}
TypeFilter(d, options) == options.typeGiven => d.type \in options.type

\* request.name, or the $or of "no name field" and "name: null"
NameFilter(d, options) ==
  IF options.name = AnyName THEN TRUE
  ELSE IF options.name = NoName THEN d.name = NoName
  ELSE d.name = options.name

\* whether the request is rewrapped as {$or: [request, {type: CHANNEL}], moderate}
IgnoresMemberFilter(options) ==
  /\ options.ignoreMemberFilterForChannel
  /\ (~options.typeGiven \/ CONVERSATION_TYPE.CHANNEL \in options.type)

\* variant: the channels of the $or still have to pass the member filter
Matches_NoRewrap(d, options) ==
  /\ d.exists
  /\ d.moderate = options.moderate
  /\ MembersFilter(d, options) /\ TypeFilter(d, options) /\ NameFilter(d, options)

\* whether document d satisfies the request built from options
Matches(d, options) ==
  /\ d.exists
  /\ d.moderate = options.moderate
  /\ IF IgnoresMemberFilter(options)
       THEN \/ MembersFilter(d, options) /\ TypeFilter(d, options) /\ NameFilter(d, options)
            \/ d.type = CONVERSATION_TYPE.CHANNEL
       ELSE MembersFilter(d, options) /\ TypeFilter(d, options) /\ NameFilter(d, options)

\* request.members.$size = ... on the rewrapped request, which has no
\* members field
SizeOfUndefined(options) ==
  options.exactMembersMatch /\ IgnoresMemberFilter(options)

\* sort('-last_message.date')
RECURSIVE SortByLastMessage(_)
SortByLastMessage(docs) ==
  IF docs = {} THEN <<>>
  ELSE LET d == CHOOSE x \in docs :
                  \A y \in docs : x.last_message.date >= y.last_message.date
       IN <<d>> \o SortByLastMessage(docs \ {d})

findConversation(i) ==
  /\ CanStart(i)
  /\ \E options \in FindOptions, fail \in StoreOutcomes :
       LET call == [IdleCall EXCEPT !.op = "findConversation", !.opts = options]
           found == {convs[c] : c \in {k \in ConvIds : Matches(convs[k], options)}}
       IN Step(i, IF ConfigurationError(options) THEN ThrowError(call)
                  ELSE IF SizeOfUndefined(options) THEN Throw(call)
                  ELSE IF fail
                    THEN CallbackError([call EXCEPT !.queried = TRUE, !.failed = TRUE])
                  ELSE [call EXCEPT !.pc = "done", !.queried = TRUE,
                          !.res = found, !.list = SortByLastMessage(found)])
  /\ started' = started + 1
  /\ UNCHANGED <<convs, messages, nextConv, nextMsg, faulty, client>>

\* ------------------------------------------------------------------- Next
\* the caller has its answer (or the exception went uncaught): the slot is free
Return(i) ==
  /\ calls[i].pc \in {"done", "threw"}
  /\ calls' = [calls EXCEPT ![i] = IdleCall]
  /\ UNCHANGED <<convs, messages, nextConv, nextMsg, started, faulty, client>>

Next ==
  \E i \in Calls :
    \/ createConversation(i)
    \/ createMessage(i)
    \/ createMessage_update(i)
    \/ makeAllMessageReadedForAnUser(i)
    \/ makeAllMessageReadedForAnUserHelper_update(i)
    \/ addMemberToConversation(i)
    \/ updateConversation(i)
    \/ updateConversation_next(i)
    \/ removeMemberFromConversation(i)
    \/ deleteConversation(i)
    \/ deleteConversation_remove(i)
    \/ getChannels(i)
    \/ getChannels_create(i)
    \/ moderateConversation(i)
    \/ Return(i)

Spec == Init /\ [][Next]_vars

\* the same service over a store whose operations may fail
InitFaulty ==
  /\ convs = [c \in ConvIds |-> NullDoc]
  /\ messages = {}
  /\ calls = [i \in Calls |-> IdleCall]
  /\ nextConv = 1
  /\ nextMsg = 1
  /\ started = 0
  /\ faulty = TRUE
  /\ client = ClientInit

SpecFaulty == InitFaulty /\ [][Next]_vars

\* ------------------------------------------------ searching conversations
\* the options the conversations that are searched were created with
FindableOptions ==
  Options \cup
  {DEFAULT_CHANNEL,
   [type |-> CONVERSATION_TYPE.CHANNEL, name |-> NoName, members |-> <<"u1">>,
    moderate |-> FALSE]}

createFindable(i) == createConversationWith(i, FindableOptions)

NextFind ==
  \E i \in Calls :
    \/ createFindable(i)
    \/ moderateConversation(i)
    \/ findConversation(i)
    \/ Return(i)

SpecFind == Init /\ [][NextFind]_vars

\* ---------------------------------------------------------------- claims
Completed(i, op) == calls[i].op = op /\ calls[i].pc = "done" /\ ~calls[i].err
\* completed with no store failure and no other call acting in between
CompletedAlone(i, op) == Completed(i, op) /\ ~calls[i].failed /\ calls[i].solo

Members(c) == SeqToSet(convs[c].members)
AllChannels ==
  {c \in ConvIds : convs[c].exists /\ convs[c].type = CONVERSATION_TYPE.CHANNEL}

\* C1 (as claimed): deleteConversation(u, c) by a user u who is not a member
\* of the existing conversation c changes nothing: neither of its two steps
\* changes a conversation or removes a message, and the callback gets no error.
C1_NonMemberDeleteChangesNothing ==
  [][\A i \in Calls :
       /\ ( /\ calls[i].pc = "idle"
            /\ calls'[i].op = "deleteConversation"
            /\ findById(calls'[i].conv).exists
            /\ calls'[i].users[1] \notin Members(calls'[i].conv) )
          => (convs' = convs /\ messages' = messages /\ ~calls'[i].err)
       /\ ( /\ calls[i].pc = "dc_remove"
            /\ calls'[i].pc = "done"
            /\ ~calls[i].snap.exists
            /\ findById(calls[i].conv).exists )
          => (convs' = convs /\ messages' = messages /\ ~calls'[i].err)
    ]_vars

\* C2 (as claimed): when createMessage completes with no other call
\* interleaved, the creator's read counter equals the conversation's
\* numOfMessage, the count that includes the new message.
C2_OwnMessageIsRead ==
  \A i \in Calls :
    CompletedAlone(i, "createMessage") /\ findById(calls[i].conv).exists
      => LET c == convs[calls[i].conv]
             u == calls[i].msg.creator
         IN u \in DOMAIN c.numOfReadedMessage
            /\ c.numOfReadedMessage[u] = c.numOfMessage

\* C3: the conversation update of every createMessage on an existing
\* conversation raises numOfMessage by exactly 1 and sets last_message to the
\* summary of its message, whatever was interleaved; and numOfMessage of a
\* conversation changes in no other step, so that n completed calls raise it
\* by n.
C3_CountAndLastMessage ==
  [][/\ \A i \in Calls :
          ( /\ calls[i].pc = "cm_update"
            /\ calls'[i].pc # "cm_update"
            /\ findById(calls[i].conv).exists )
          => LET c == calls[i].conv
             IN /\ convs'[c].exists
                /\ convs'[c].numOfMessage = convs[c].numOfMessage + 1
                /\ convs'[c].last_message =
                     [text |-> calls[i].msg.text, date |-> calls[i].msg.creation,
                      creator |-> calls[i].msg.creator,
                      user_mentions |-> calls[i].msg.user_mentions]
     /\ \A c \in ConvIds :
          ( /\ convs[c].exists /\ convs'[c].exists
            /\ convs'[c].numOfMessage # convs[c].numOfMessage )
          => \E i \in Calls : /\ calls[i].pc = "cm_update"
                              /\ calls'[i].pc # "cm_update"
                              /\ calls[i].conv = c
    ]_vars

\* two createMessage calls on one conversation, interleaved, both past their
\* conversation update
C3_Witness ==
  \E i \in Calls, j \in Calls :
    /\ i # j
    /\ Completed(i, "createMessage") /\ ~calls[i].solo
    /\ calls[j].op = "createMessage" /\ calls[j].pc = "mark"
    /\ calls[j].conv = calls[i].conv
    /\ findById(calls[i].conv).numOfMessage = 2

\* C4: in every reachable state every read counter of every conversation is
\* at most the conversation's numOfMessage.
C4_ReadAtMostCount ==
  \A c \in ConvIds :
    convs[c].exists =>
      \A k \in DOMAIN convs[c].numOfReadedMessage :
        convs[c].numOfReadedMessage[k] <= convs[c].numOfMessage

\* a member whose counter has caught up with a non-zero message count
C4_Witness ==
  \E c \in ConvIds :
    /\ convs[c].exists /\ convs[c].numOfMessage >= 1
    /\ \E u \in Members(c) \cap DOMAIN convs[c].numOfReadedMessage :
         convs[c].numOfReadedMessage[u] = convs[c].numOfMessage

\* C5: the write of makeAllMessageReadedForAnUser(u, c) leaves
\* numOfReadedMessage[u] at max(previous value, the numOfMessage the call
\* read), which is never below the previous value and never above the current
\* numOfMessage, and is max(previous value, current numOfMessage) when no
\* other call acted between the call's read and its write.
C5_MarkIsMonotonicMax ==
  [][\A i \in Calls :
       ( /\ calls[i].op = "makeAllMessageReadedForAnUser"
         /\ calls[i].pc = "mark"
         /\ calls'[i].pc = "done" /\ ~calls'[i].err
         /\ findById(calls[i].conv).exists )
       => LET c == calls[i].conv
              before == convs[c].numOfReadedMessage
              after == convs'[c].numOfReadedMessage
          IN \A u \in calls[i].keys :
               /\ u \in DOMAIN after
               /\ u \in DOMAIN before => after[u] >= before[u]
               /\ after[u] <= convs'[c].numOfMessage
               /\ after[u] = IF u \in DOMAIN before
                               THEN Max(before[u], calls[i].snap.numOfMessage)
                               ELSE calls[i].snap.numOfMessage
               /\ calls[i].solo =>
                    after[u] = IF u \in DOMAIN before
                                 THEN Max(before[u], convs[c].numOfMessage)
                                 ELSE convs[c].numOfMessage
    ]_vars

\* a createMessage raised numOfMessage between the call's read and its write
C5_Witness ==
  \E i \in Calls :
    /\ Completed(i, "makeAllMessageReadedForAnUser")
    /\ ~calls[i].solo
    /\ findById(calls[i].conv).exists
    /\ calls[i].snap.numOfMessage < convs[calls[i].conv].numOfMessage
    /\ \A u \in calls[i].keys : u \in DOMAIN convs[calls[i].conv].numOfReadedMessage

\* C6: updateConversation(id, {newMembers: [x], deleteMembers: [y]}) with
\* x # y, completed with no store failure and no other call interleaved,
\* leaves x among the members and y not among them.
C6_AddedPresentRemovedAbsent ==
  \A i \in Calls :
    CompletedAlone(i, "updateConversation") /\ TwoWrites(calls[i])
      => /\ findById(calls[i].conv).exists
         /\ \A x \in SeqToSet(calls[i].users) : x \in Members(calls[i].conv)
         /\ \A y \in SeqToSet(calls[i].del) : y \notin Members(calls[i].conv)

\* such a call where x was not a member before the second write
C6_Witness ==
  \E i \in Calls :
    /\ CompletedAlone(i, "updateConversation") /\ TwoWrites(calls[i])
    /\ \A x \in SeqToSet(calls[i].users) :
         x \notin SeqToSet(calls[i].snap.members) /\ x \in Members(calls[i].conv)

\* C7 (as claimed): after updateConversation with non-empty newMembers,
\* every added member's read counter equals numOfMessage and no counter is
\* written under a key that is not an added member's id.
C7_AddedMembersHaveRead ==
  \A i \in Calls :
    CompletedAlone(i, "updateConversation") /\ HasAdd(calls[i])
      => LET c == convs[calls[i].conv]
         IN /\ \A x \in SeqToSet(calls[i].users) :
                 /\ x \in DOMAIN c.numOfReadedMessage
                 /\ c.numOfReadedMessage[x] = c.numOfMessage
            /\ UndefinedKey \notin DOMAIN c.numOfReadedMessage

\* C8 (as claimed): the event updateConversation publishes carries the
\* members, name and avatar the store holds after the call's writes, and the
\* list of removed members.
C8_EventCarriesUpdated ==
  \A i \in Calls :
    CompletedAlone(i, "updateConversation")
      => /\ Len(calls[i].pub) = 1
         /\ LET e == calls[i].pub[1]
                c == convs[calls[i].conv]
            IN /\ e.topic = "update"
               /\ e.deleteMembers = calls[i].del
               /\ e.conversation.members = c.members
               /\ e.conversation.name = c.name
               /\ e.conversation.avatar = c.avatar

\* C9: getChannels({moderate: false}), completed with no other call
\* interleaved: on a store with no channel it creates one channel, the only
\* channel afterwards, and returns it; on a store that holds a non-moderated
\* channel (as the first call leaves it) it creates nothing, publishes
\* nothing and returns the channels the store holds.
C9_DefaultChannelOnce ==
  \A i \in Calls :
    CompletedAlone(i, "getChannels") /\ ~calls[i].moderate
      => /\ AllChannels \subseteq {calls[i].conv}
            => /\ AllChannels = {calls[i].conv}
               /\ calls[i].res = {convs[calls[i].conv]}
               /\ Len(calls[i].pub) = 1
         /\ (\E d \in FindChannels(FALSE) : d.id # calls[i].conv)
            => /\ calls[i].conv = NoSuchConv
               /\ calls[i].pub = <<>>
               /\ calls[i].res = FindChannels(FALSE)

\* the second call: it returns the default channel alone and created nothing
C9_Witness ==
  \E i \in Calls :
    /\ CompletedAlone(i, "getChannels") /\ ~calls[i].moderate
    /\ calls[i].conv = NoSuchConv
    /\ \E d \in calls[i].res : d.name = DEFAULT_CHANNEL.name /\ calls[i].res = {d}
    /\ Cardinality(AllChannels) = 1

\* C10 (as claimed): getChannels(options) returns exactly the channels whose
\* moderate flag is Boolean(options.moderate) when it creates nothing, and
\* creates the default channel only when the store holds no channel at all;
\* in particular getChannels({moderate: true}) on a store that holds
\* non-moderated channels creates nothing and returns no non-moderated one.
C10_ChannelsMatchFlag ==
  \A i \in Calls :
    CompletedAlone(i, "getChannels")
      => /\ calls[i].conv = NoSuchConv => calls[i].res = FindChannels(calls[i].moderate)
         /\ calls[i].conv # NoSuchConv => AllChannels \subseteq {calls[i].conv}
         /\ ( /\ calls[i].moderate
              /\ \E d \in FindChannels(FALSE) : d.id # calls[i].conv )
            => /\ calls[i].conv = NoSuchConv
               /\ \A d \in calls[i].res : d.moderate

\* ------------------------------------------------------- changing the topic
NextTopic ==
  \E i \in Calls :
    \/ createConversation(i)
    \/ updateTopic(i)
    \/ Return(i)

SpecTopic == Init /\ [][NextTopic]_vars

\* ------------------------------ messages and members over a failing store
NextStoreErrors ==
  \E i \in Calls :
    \/ createConversation(i)
    \/ createMessage(i)
    \/ createMessage_update(i)
    \/ makeAllMessageReadedForAnUserHelper_update(i)
    \/ removeMemberFromConversation(i)
    \/ Return(i)

SpecStoreErrors == InitFaulty /\ [][NextStoreErrors]_vars

\* ------------------------------------------------- messages with mentions
\* a mention of u as lower-case or as upper-case hex digits, or a word
Tokens == {Word} \cup {At(u) : u \in Users} \cup {AtUpper(u) : u \in Users}

\* every text of at most MaxText tokens
Texts == UNION {[1..n -> Tokens] : n \in 0..MaxText}

Mentioning == {[creator |-> "u1", text |-> t] : t \in Texts}

createMentioning(i) == createMessageWith(i, Mentioning)

NextMention ==
  \E i \in Calls :
    \/ createConversation(i)
    \/ createMentioning(i)
    \/ createMessage_update(i)
    \/ makeAllMessageReadedForAnUserHelper_update(i)
    \/ Return(i)

SpecMention == Init /\ [][NextMention]_vars

\* ------------------------------------------------------ changing members
\* the options of the conversations whose members are changed
MemberOptions ==
  Options \cup
  {[type |-> CONVERSATION_TYPE.COMMUNITY, name |-> NoName, members |-> <<"u1">>,
    moderate |-> FALSE, community |-> "k1"]}

createWithMembers(i) == createConversationWith(i, MemberOptions)

NextMembers ==
  \E i \in Calls :
    \/ createWithMembers(i)
    \/ addMemberToConversation(i)
    \/ makeAllMessageReadedForAnUserHelper_update(i)
    \/ updateConversation(i)
    \/ updateConversation_next(i)
    \/ updateCommunityConversation(i)
    \/ removeMemberFromConversation(i)
    \/ Return(i)

SpecMembers == Init /\ [][NextMembers]_vars

\* ------------------------------------------------------- reading messages
NextMessages ==
  \E i \in Calls :
    \/ createConversation(i)
    \/ createMessage(i)
    \/ createMessage_update(i)
    \/ makeAllMessageReadedForAnUserHelper_update(i)
    \/ moderateMessage(i)
    \/ getMessages(i)
    \/ Return(i)

SpecMessages == Init /\ [][NextMessages]_vars

\* ------------------------------------------------------------- the client
backend == <<convs, messages, calls, nextConv, nextMsg, started, faulty>>

\* the client takes an event or a request while it has taken fewer than MaxEvents
Deliverable == client.delivered < MaxEvents

\* chatConversationsStoreService.findConversation
StoreFindConversation(store, id) == IF id \in ConvIds THEN store[id] ELSE Absent

\* chatConversationsStoreService.addConversation / joinConversation: the
\* conversation is in the store afterwards; one that is there stays as it is
StoreAddConversation(store, conversation) ==
  IF store[conversation.id].present THEN store
  ELSE [store EXCEPT ![conversation.id] =
          [Absent EXCEPT !.present = TRUE, !.type = conversation.type,
                         !.creator = conversation.creator]]

\* chatConversationsStoreService.addConversations
RECURSIVE StoreAddConversations(_, _)
StoreAddConversations(store, conversations) ==
  IF conversations = <<>> THEN store
  ELSE StoreAddConversations(StoreAddConversation(store, conversations[1]),
                             Tail(conversations))

\* chatConversationsStoreService.deleteConversation
StoreDeleteConversation(store, id) == [store EXCEPT ![id] = Absent]

\* chatConversationsStoreService.increaseNumberOfUnreadMessages
StoreIncreaseNumberOfUnreadMessages(store, id) ==
  IF store[id].present THEN [store EXCEPT ![id].unreadMessageCount = @ + 1] ELSE store

\* chatConversationsStoreService.increaseUserMentionsCount
StoreIncreaseUserMentionsCount(store, id) ==
  IF store[id].present THEN [store EXCEPT ![id].mentionCount = @ + 1] ELSE store

\* chatConversationsStoreService.markAllMessagesAsRead
StoreMarkAllMessagesAsRead(store, id) ==
  IF store[id].present
    THEN [store EXCEPT ![id].unreadMessageCount = 0, ![id].mentionCount = 0]
    ELSE store

\* chatConversationsStoreService.updateTopic
StoreUpdateTopic(store, id, topic) ==
  IF store[id].present THEN [store EXCEPT ![id].topic = topic] ELSE store

\* ---- chatConversationListenerService
\* the conversations a NEW_CONVERSATION event announces
Announcements ==
  [id : ConvIds, type : {CHAT_CONVERSATION_TYPE.OPEN, CHAT_CONVERSATION_TYPE.CONFIDENTIAL},
   creator : Users]

\* variant: every announced conversation is added
ShouldAdd_Always(conversation) == TRUE

\* conversation.type === CONFIDENTIAL || conversation.creator._id === session.user._id
ShouldAdd(conversation) ==
  \/ conversation.type = CHAT_CONVERSATION_TYPE.CONFIDENTIAL
  \/ conversation.creator = SessionUser

addConversation ==
  /\ Deliverable
  /\ \E conversation \in Announcements :
       client' = [client EXCEPT
         !.store = IF ShouldAdd(conversation) THEN StoreAddConversation(@, conversation)
                   ELSE @,
         !.event = [NoEvent EXCEPT !.kind = "conversation", !.id = conversation.id,
                                   !.type = conversation.type,
                                   !.creator = conversation.creator],
         !.delivered = @ + 1]
  /\ UNCHANGED backend

\* the text messages a TEXT_MESSAGE event carries: the channel, the text and
\* the user_mentions of the message, which may be missing
InboundMessages ==
  {[channel |-> c, text |-> t.text, mentionsGiven |-> t.given,
    user_mentions |-> IF t.given THEN parseMention(t.text) ELSE <<>>, creator |-> "u2"] :
     c \in ConvIds,
     t \in {[text |-> <<Word>>, given |-> FALSE],
            [text |-> <<Word>>, given |-> TRUE],
            [text |-> <<Word, At("u1")>>, given |-> TRUE],
            [text |-> <<At("u2"), Word>>, given |-> TRUE]}}

\* chatParseMention.parseMentions(text, user_mentions, {skipLink: true}):
\* every mention of a user of user_mentions becomes that user's name, as
\* plain text
parseMentions(text, user_mentions) ==
  [k \in 1..Len(text) |->
     IF text[k].at /\ text[k].id \in SeqToSet(user_mentions)
       THEN [at |-> FALSE, id |-> text[k].id, upper |-> FALSE]
       ELSE text[k]]

\* variant: every message that mentions somebody counts
MentionsSessionUser_Anybody(message) ==
  message.mentionsGiven /\ message.user_mentions # <<>>

\* chatConversationActionsService.updateUserMentionsCount: whether the
\* session user is among messageUserMentions
MentionsSessionUser(message) ==
  message.mentionsGiven /\ SessionUser \in SeqToSet(message.user_mentions)

\* chatConversationActionsService.updateUserMentionsCount
updateUserMentionsCount(store, id, message) ==
  IF MentionsSessionUser(message) THEN StoreIncreaseUserMentionsCount(store, id)
  ELSE store

\* variant: the preview is left as it is
LastMessageOf_Kept(conversation, message, date) == conversation.last_message

\* conversation.last_message = {...}
LastMessageOf(conversation, message, date) ==
  [text |-> parseMentions(message.text, message.user_mentions), date |-> date,
   creator |-> message.creator, user_mentions |-> message.user_mentions]

onMessage ==
  /\ Deliverable
  /\ \E message \in InboundMessages :
       LET conversation == StoreFindConversation(client.store, message.channel)
           date == client.delivered + 1
           counted == updateUserMentionsCount(
                        StoreIncreaseNumberOfUnreadMessages(client.store, message.channel),
                        message.channel, message)
       IN client' = [client EXCEPT
            !.store = IF ~conversation.present THEN @
                      ELSE [counted EXCEPT
                              ![message.channel].last_message =
                                 LastMessageOf(conversation, message, date),
                              ![message.channel].canScrollDown = TRUE],
            !.event = [NoEvent EXCEPT !.kind = "message", !.id = message.channel,
                                      !.text = message.text,
                                      !.mentionsGiven = message.mentionsGiven,
                                      !.user_mentions = message.user_mentions,
                                      !.creator = message.creator, !.creation = date],
            !.delivered = @ + 1]
  /\ UNCHANGED backend

NextListener ==
  \/ addConversation
  \/ onMessage

SpecListener == Init /\ [][NextListener]_vars

\* ---- chatConversationActionsService
\* The actions that proxy a remote operation: each issues its remote call
\* and acts on the local store in the handler of the call's resolution.
ProxyActions ==
  {"addChannel", "addPrivateConversation", "deleteConversation", "joinConversation",
   "leaveConversation", "markAllMessagesAsRead", "updateConversationTopic", "start"}

\* an action is requested: its remote call is issued and its promise pending
Request(name) ==
  /\ Deliverable
  /\ client.action.remote # "pending"
  /\ \E c \in ConvIds :
       client' = [client EXCEPT
         !.action = [name |-> name, conv |-> c, remote |-> "pending",
                     promise |-> "pending"],
         !.delivered = @ + 1]
  /\ UNCHANGED backend

addChannel == Request("addChannel")
addPrivateConversation == Request("addPrivateConversation")
clientDeleteConversation == Request("deleteConversation")
joinConversation == Request("joinConversation")
leaveConversation == Request("leaveConversation")
markAllMessagesAsRead == Request("markAllMessagesAsRead")
updateConversationTopic == Request("updateConversationTopic")
start == Request("start")

\* result.data of chatConversationService.create / listForCurrentUser
Created(action, type) == [id |-> action.conv, type |-> type, creator |-> SessionUser]

\* what the action does to the store once its remote call has resolved
Mirror(store, action) ==
  CASE action.name = "addChannel" ->
         StoreAddConversation(store, Created(action, CHAT_CONVERSATION_TYPE.OPEN))
    [] action.name = "addPrivateConversation" ->
         StoreAddConversation(store, Created(action, CHAT_CONVERSATION_TYPE.CONFIDENTIAL))
    [] action.name = "deleteConversation" -> StoreDeleteConversation(store, action.conv)
    [] action.name = "joinConversation" ->
         StoreAddConversation(store, [id |-> action.conv,
                                      type |-> CHAT_CONVERSATION_TYPE.OPEN,
                                      creator |-> "u2"])
    [] action.name = "leaveConversation" -> StoreDeleteConversation(store, action.conv)
    [] action.name = "markAllMessagesAsRead" ->
         StoreMarkAllMessagesAsRead(store, action.conv)
    [] action.name = "updateConversationTopic" ->
         StoreUpdateTopic(store, action.conv, "New topic")
    [] action.name = "start" ->
         StoreAddConversations(store,
           <<Created(action, CHAT_CONVERSATION_TYPE.CONFIDENTIAL)>>)
    [] OTHER -> store

\* variant: the store is changed although the remote call was rejected
Unmirrored_Mirrored(store, action) == Mirror(store, action)

\* what the action does to the store once its remote call was rejected
Unmirrored(store, action) == store

\* how the promise of the action ends when its remote call was rejected;
\* the test of start does not look at what start returns
RejectedPromise(action) ==
  IF action.name = "start" THEN {"rejected", "resolved"} ELSE {"rejected"}

remoteResolved ==
  /\ client.action.remote = "pending"
  /\ client' = [client EXCEPT
       !.store = Mirror(@, client.action),
       !.action = [client.action EXCEPT !.remote = "resolved", !.promise = "resolved"]]
  /\ UNCHANGED backend

remoteRejected ==
  /\ client.action.remote = "pending"
  /\ \E promise \in RejectedPromise(client.action) :
       client' = [client EXCEPT
         !.store = Unmirrored(@, client.action),
         !.action = [client.action EXCEPT !.remote = "rejected", !.promise = promise]]
  /\ UNCHANGED backend

NextActions ==
  \/ addChannel
  \/ addPrivateConversation
  \/ clientDeleteConversation
  \/ joinConversation
  \/ leaveConversation
  \/ markAllMessagesAsRead
  \/ updateConversationTopic
  \/ start
  \/ remoteResolved
  \/ remoteRejected
  \/ onMessage

SpecActions == Init /\ [][NextActions]_vars

\* the documents in the store
Stored == {convs[c] : c \in {k \in ConvIds : convs[k].exists}}

\* call i is an answered findConversation
Found(i) ==
  /\ calls[i].op = "findConversation" /\ calls[i].pc = "done" /\ ~calls[i].err

\* C11: findConversation called with exactMembersMatch or
\* ignoreMemberFilterForChannel and without members throws its configuration
\* error: it issues no query to the store and hands nothing to a callback.
C11_ConfigurationErrorBeforeQuery ==
  \A i \in Calls :
    LET call == calls[i] IN
    (/\ call.op = "findConversation"
     /\ call.opts.exactMembersMatch \/ call.opts.ignoreMemberFilterForChannel
     /\ ~call.opts.membersGiven)
    => /\ call.pc = "threw" /\ call.thrown = "Error"
       /\ ~call.queried /\ ~call.err /\ call.res = {} /\ call.list = <<>>

\* a call with only ignoreMemberFilterForChannel and no members has thrown
C11_Witness ==
  \E i \in Calls :
    /\ calls[i].op = "findConversation" /\ calls[i].pc = "threw"
    /\ calls[i].opts.ignoreMemberFilterForChannel
    /\ ~calls[i].opts.exactMembersMatch /\ ~calls[i].opts.membersGiven
    /\ Stored # {}

\* the filters of a search other than the one on members
C12_OtherFilters(d, o) ==
  /\ d.moderate = o.moderate
  /\ (o.typeGiven => d.type \in o.type)
  /\ (o.name = NoName => d.name = NoName)
  /\ (o.name \notin {NoName, AnyName} => d.name = o.name)

\* C12: a search by members that does not ask for every channel answers,
\* among the conversations of the requested moderate flag, type and name,
\* with exactMembersMatch exactly those whose member set is the given one,
\* and without it exactly those whose members include all the given ones.
C12_ExactOrAtLeast ==
  \A i \in Calls :
    LET o == calls[i].opts IN
    (Found(i) /\ o.membersGiven /\ ~o.ignoreMemberFilterForChannel)
    => calls[i].res =
         {d \in Stored :
            /\ C12_OtherFilters(d, o)
            /\ IF o.exactMembersMatch
                 THEN SeqToSet(d.members) = SeqToSet(o.members)
                 ELSE SeqToSet(o.members) \subseteq SeqToSet(d.members)}

\* an exact search for [u1] answered one conversation and left out another
\* one that has u1 among more members
C12_Witness ==
  \E i \in Calls :
    /\ Found(i) /\ calls[i].opts.exactMembersMatch
    /\ ~calls[i].opts.ignoreMemberFilterForChannel
    /\ calls[i].opts.members = <<"u1">>
    /\ calls[i].res # {}
    /\ \E d \in Stored \ calls[i].res :
         /\ C12_OtherFilters(d, calls[i].opts)
         /\ {"u1", "u2"} \subseteq SeqToSet(d.members)

\* C13: with ignoreMemberFilterForChannel, members, and a type that is absent
\* or includes channel, the answer is every conversation of the requested
\* moderate flag that passes the member, type and name filters or is a channel.
C13_ChannelsRegardlessOfMembers ==
  \A i \in Calls :
    LET o == calls[i].opts IN
    (/\ Found(i) /\ o.ignoreMemberFilterForChannel /\ o.membersGiven
     /\ (~o.typeGiven \/ CONVERSATION_TYPE.CHANNEL \in o.type))
    => calls[i].res =
         {d \in Stored :
            /\ d.moderate = o.moderate
            /\ \/ d.type = CONVERSATION_TYPE.CHANNEL
               \/ /\ C12_OtherFilters(d, o)
                  /\ SeqToSet(o.members) \subseteq SeqToSet(d.members)}

\* a search for [u2] answered a channel u2 is no member of together with a
\* conversation that is no channel
C13_Witness ==
  \E i \in Calls :
    /\ Found(i) /\ calls[i].opts.ignoreMemberFilterForChannel
    /\ calls[i].opts.members = <<"u2">>
    /\ \E d \in calls[i].res :
         d.type = CONVERSATION_TYPE.CHANNEL /\ "u2" \notin SeqToSet(d.members)
    /\ \E d \in calls[i].res : d.type # CONVERSATION_TYPE.CHANNEL

\* C14 (as claimed): a conversation-deleted event is published only when a
\* conversation was actually deleted: every such event carries the document
\* that the call removed, a conversation its user was a member of.
C14_DeletionEventOnlyWhenDeleted ==
  \A i \in Calls :
    \A k \in 1..Len(calls[i].pub) :
      calls[i].pub[k].topic = "deletion"
      => /\ calls[i].pub[k].conversation.exists
         /\ calls[i].pub[k].conversation.id = calls[i].conv
         /\ calls[i].users[1] \in SeqToSet(calls[i].pub[k].conversation.members)

\* C15 (as claimed): the message updateTopic publishes carries the topic
\* this call committed: the value, creator and last_set it was called with.
C15_TopicMessageIsPostUpdate ==
  \A i \in Calls :
    Completed(i, "updateTopic")
    => /\ Len(calls[i].pub) = 1
       /\ calls[i].pub[1].message.topic = calls[i].topic

\* C16 (as claimed): when the update of the existing conversation fails in
\* createMessage, the message stays persisted and the call goes on to its completion: no
\* exception leaves it.
C16_UpdateFailureIsSwallowed ==
  [][\A i \in Calls :
       (/\ calls[i].op = "createMessage" /\ calls[i].pc = "cm_update"
        /\ findById(calls[i].conv).exists /\ calls'[i].failed)
       => /\ calls[i].msg \in messages'
          /\ calls'[i].pc # "threw"
          /\ ~calls'[i].err
    ]_vars

\* C17 (as claimed): the user_mentions that parseMention gives a message
\* name no user twice, whatever the text.
C17_MentionsAreDistinct ==
  \A i \in Calls :
    calls[i].op = "createMessage"
    => LET mentions == calls[i].msg.user_mentions
       IN \A j, k \in 1..Len(mentions) : j # k => mentions[j] # mentions[k]

\* C18: adding a user who is a member already changes no conversation, and
\* whatever addMemberToConversation, updateConversation,
\* updateCommunityConversation and removeMemberFromConversation do, no
\* conversation has a user twice among its members.
C18_MembersAreASet ==
  [][/\ \A c \in ConvIds :
          \A j, k \in 1..Len(convs'[c].members) :
            j # k => convs'[c].members[j] # convs'[c].members[k]
     /\ \A i \in Calls :
          (/\ calls[i].pc = "idle"
           /\ calls'[i].op = "addMemberToConversation"
           /\ calls'[i].users[1] \in SeqToSet(findById(calls'[i].conv).members))
          => convs' = convs
    ]_vars

\* addMemberToConversation has added a user who was a member already, to a
\* conversation of two members
C18_Witness ==
  \E i \in Calls :
    /\ Completed(i, "addMemberToConversation")
    /\ calls[i].users[1] \in SeqToSet(calls[i].snap.members)
    /\ Len(convs[calls[i].conv].members) = 2

\* C19: removeMemberFromConversation(c, u) takes u out of the members of c
\* and drops u's read counter, and changes nothing else: the other members,
\* the other counters, the other fields and the other conversations stay.
\* Without a store error it publishes exactly one update event, whose
\* deleteMembers is [u]; with a store error it publishes nothing, changes
\* nothing and hands the error to the callback.
C19_RemoveMemberFrame ==
  [][\A i \in Calls :
       (calls[i].pc = "idle" /\ calls'[i].op = "removeMemberFromConversation")
       => LET c == calls'[i].conv
              u == calls'[i].users[1]
          IN IF calls'[i].failed
               THEN calls'[i].err /\ calls'[i].pub = <<>> /\ convs' = convs
               ELSE /\ ~calls'[i].err /\ calls'[i].pc = "done"
                    /\ Len(calls'[i].pub) = 1
                    /\ calls'[i].pub[1].topic = "update"
                    /\ calls'[i].pub[1].deleteMembers = <<u>>
                    /\ \A d \in ConvIds \ {c} : convs'[d] = convs[d]
                    /\ c \in ConvIds =>
                         /\ convs'[c].members =
                              SelectSeq(convs[c].members, LAMBDA m : m # u)
                         /\ DOMAIN convs'[c].numOfReadedMessage =
                              (DOMAIN convs[c].numOfReadedMessage) \ {u}
                         /\ \A k \in DOMAIN convs'[c].numOfReadedMessage :
                              convs'[c].numOfReadedMessage[k] =
                                convs[c].numOfReadedMessage[k]
                         /\ [convs'[c] EXCEPT !.members = <<>>,
                                              !.numOfReadedMessage = NoCounters]
                            = [convs[c] EXCEPT !.members = <<>>,
                                               !.numOfReadedMessage = NoCounters]
    ]_vars

\* a member with a read counter was removed from a conversation of two members
C19_Witness ==
  \E i \in Calls :
    /\ Completed(i, "removeMemberFromConversation")
    /\ \E d \in calls[i].res :
         /\ d.exists /\ Len(d.members) = 2
         /\ calls[i].users[1] \in SeqToSet(d.members)
         /\ calls[i].users[1] \in DOMAIN d.numOfReadedMessage
         /\ calls[i].users[1] \notin Members(d.id)
         /\ calls[i].users[1] \notin DOMAIN convs[d.id].numOfReadedMessage

\* the messages of conversation c with the given moderate flag
C20_Pool(c, moderate) == {m \in messages : m.channel = c /\ m.moderate = moderate}

\* how many messages of the pool are more recent than m
C20_Newer(pool, m) == Cardinality({n \in pool : n.creation > m.creation})

\* C20 (as claimed): getMessages of an existing conversation answers with
\* messages of the conversation only, oldest first; a query that does not ask for moderated messages gets
\* the non-moderated ones, those that have at least offset and fewer than
\* offset + limit more recent ones; a query with moderate set gets the
\* moderated messages of the conversation.
C20_MessagesOfTheRequestedKind ==
  \A i \in Calls :
    (Completed(i, "getMessages") /\ findById(calls[i].conv).exists)
    => LET list == calls[i].list
           query == calls[i].query
           limit == IF query.limit = 0 THEN 20 ELSE query.limit
           pool == C20_Pool(calls[i].conv, query.moderate)
       IN /\ \A k \in 1..Len(list) : list[k].channel = calls[i].conv
          /\ \A j, k \in 1..Len(list) : j < k => list[j].creation < list[k].creation
          /\ ~query.moderate =>
               SeqToSet(list) =
                 {m \in pool : /\ C20_Newer(pool, m) >= query.offset
                               /\ C20_Newer(pool, m) < query.offset + limit}
          /\ (query.moderate /\ query.offset = 0 /\ Cardinality(pool) <= limit)
               => pool \subseteq SeqToSet(list)

\* C21: createConversation that reports no error has persisted a document
\* with numOfMessage 0, no read counter and last_message {date, no mentions},
\* has changed no other document, and has published exactly one creation
\* event, which carries that document; when it reports an error it has
\* published nothing, and whenever the save failed it reports the error and
\* the store is as it was.
C21_CreatedAndAnnounced ==
  [][\A i \in Calls :
       (calls[i].pc = "idle" /\ calls'[i].op = "createConversation")
       => LET c == calls'[i].conv
              d == convs'[c]
          IN /\ \A o \in ConvIds \ {c} : convs'[o] = convs[o]
             /\ ~convs[c].exists
             /\ ~d.exists => (calls'[i].err /\ convs' = convs)
             /\ calls'[i].err => calls'[i].pub = <<>>
             /\ ~calls'[i].err =>
                  /\ d.exists /\ d.id = c
                  /\ d.numOfMessage = 0
                  /\ DOMAIN d.numOfReadedMessage = {}
                  /\ d.last_message.user_mentions = <<>>
                  /\ d.last_message.date = nextConv + nextMsg
                  /\ calls'[i].pub = <<Event("creation", d, <<>>)>>
                  /\ calls'[i].res = {d}
    ]_vars

\* a second conversation was created and announced
C21_Witness ==
  \E i \in Calls :
    /\ Completed(i, "createConversation")
    /\ Len(calls[i].pub) = 1
    /\ Cardinality(Stored) = 2
    /\ calls[i].res \subseteq Stored

\* C22 (as claimed): updateCommunityConversation with newMembers [x] and
\* deleteMembers [y] on the conversation of a community succeeds, and when no
\* other call has acted in between x is a member, y is none, and x's read
\* counter is the conversation's message count.
C22_CommunityMemberDelta ==
  \A i \in Calls :
    LET call == calls[i] IN
    (/\ call.op = "updateCommunityConversation"
     /\ call.pc \in {"done", "threw"}
     /\ Len(call.users) > 0 /\ Len(call.del) > 0
     /\ call.conv \in ConvIds
     /\ call.solo /\ ~call.failed)
    => /\ call.pc = "done" /\ ~call.err
       /\ SeqToSet(call.users) \subseteq Members(call.conv)
       /\ SeqToSet(call.del) \cap Members(call.conv) = {}
       /\ \A x \in SeqToSet(call.users) :
            /\ x \in DOMAIN convs[call.conv].numOfReadedMessage
            /\ convs[call.conv].numOfReadedMessage[x] = convs[call.conv].numOfMessage

\* C23: a NEW_CONVERSATION event puts its conversation into the local store
\* exactly when the conversation is confidential or was created by the
\* session user; any other announcement, such as a channel created by another
\* user, leaves the local store as it is.
C23_AddedIffConfidentialOrOwn ==
  [][(client'.event.kind = "conversation" /\ client'.delivered = client.delivered + 1)
     => LET e == client'.event
            wanted == \/ e.type = "confidential"
                      \/ e.creator = "u1"
        IN /\ wanted => client'.store[e.id].present
           /\ ~wanted => client'.store = client.store
           /\ \A c \in ConvIds \ {e.id} : client'.store[c] = client.store[c]
           /\ (~client.store[e.id].present /\ client'.store[e.id].present)
                => (wanted /\ client'.store[e.id].type = e.type
                           /\ client'.store[e.id].creator = e.creator)
    ]_vars

\* the store holds a confidential conversation of another user and no channel
\* of another user, after both were announced
C23_Witness ==
  /\ client.delivered >= 2
  /\ \E c \in ConvIds : /\ client.store[c].present
                         /\ client.store[c].type = "confidential"
                         /\ client.store[c].creator = "u2"
  /\ client.event.kind = "conversation"
  /\ client.event.type = "open" /\ client.event.creator = "u2"
  /\ ~client.store[client.event.id].present

\* the step delivers a TEXT_MESSAGE event
C24_MessageDelivered ==
  client'.event.kind = "message" /\ client'.delivered = client.delivered + 1

\* C24: a text message for a conversation of the local store adds one to
\* that conversation's unread counter and makes its last_message the
\* message's creation date, creator, user_mentions and text, in which every
\* mention of a user of user_mentions is rendered as plain text and every
\* other part is kept; no other conversation changes.  A message for a
\* conversation that is not in the local store changes nothing in it.
C24_UnreadAndPreview ==
  [][C24_MessageDelivered
     => LET e == client'.event
            before == client.store[e.id]
            after == client'.store[e.id]
        IN /\ \A c \in ConvIds \ {e.id} : client'.store[c] = client.store[c]
           /\ ~before.present => client'.store = client.store
           /\ before.present =>
                /\ after.present
                /\ after.unreadMessageCount = before.unreadMessageCount + 1
                /\ after.last_message.date = e.creation
                /\ after.last_message.creator = e.creator
                /\ after.last_message.user_mentions = e.user_mentions
                /\ Len(after.last_message.text) = Len(e.text)
                /\ \A k \in 1..Len(e.text) :
                     IF e.text[k].at /\ e.text[k].id \in SeqToSet(e.user_mentions)
                       THEN /\ ~after.last_message.text[k].at
                            /\ after.last_message.text[k].id = e.text[k].id
                       ELSE after.last_message.text[k] = e.text[k]
                /\ after.type = before.type /\ after.creator = before.creator
                /\ after.topic = before.topic
    ]_vars

\* a second message with a mention has reached a conversation of the store
C24_Witness ==
  /\ client.event.kind = "message"
  /\ client.store[client.event.id].present
  /\ client.store[client.event.id].unreadMessageCount = 2
  /\ client.store[client.event.id].last_message.date = client.event.creation
  /\ client.event.user_mentions # <<>>

\* C25: a text message changes the mention counter of a conversation only
\* by adding one to the counter of its own conversation, and only when the
\* session user is among its user_mentions: a message without user_mentions,
\* or one that names only other users, leaves every mention counter as it is.
C25_MentionCountOnlyForSessionUser ==
  [][C24_MessageDelivered
     => LET e == client'.event
            mentioned == e.mentionsGiven /\ "u1" \in SeqToSet(e.user_mentions)
        IN \A c \in ConvIds :
             /\ client'.store[c].mentionCount # client.store[c].mentionCount
                  => /\ mentioned /\ c = e.id
                     /\ client'.store[c].mentionCount = client.store[c].mentionCount + 1
             /\ ~mentioned
                  => client'.store[c].mentionCount = client.store[c].mentionCount
    ]_vars

\* a message that mentions another user has left a counter that a message
\* mentioning the session user had raised
C25_Witness ==
  /\ client.event.kind = "message"
  /\ client.event.user_mentions = <<"u2">>
  /\ client.store[client.event.id].present
  /\ client.store[client.event.id].mentionCount = 1
  /\ client.store[client.event.id].unreadMessageCount = 2

C27_FirstOfTwoWrites(i) ==
  /\ calls[i].pc = "idle"
  /\ calls'[i].op = "updateConversation" /\ calls'[i].pc = "uc_next"
  /\ findById(calls'[i].conv).exists

\* C27 (as claimed): between the two writes of updateConversation with
\* newMembers and deleteMembers the membership overlaps old and new: the
\* members to be removed are still there and the added ones are there already.
C27_OverlapBetweenWrites ==
  [][\A i \in Calls :
       C27_FirstOfTwoWrites(i)
       => LET c == calls'[i].conv
          IN /\ SeqToSet(calls'[i].users) \subseteq SeqToSet(convs'[c].members)
             /\ SeqToSet(calls'[i].del) \cap SeqToSet(convs[c].members)
                  \subseteq SeqToSet(convs'[c].members)
    ]_vars

\* C27 (amended): the first of the two writes is the removal: between the
\* writes the conversation has its old members without those to be removed,
\* and no added member that was not a member before.
C27_RemovedBeforeAdded ==
  [][\A i \in Calls :
       C27_FirstOfTwoWrites(i)
       => LET c == calls'[i].conv
          IN /\ SeqToSet(convs'[c].members) =
                  SeqToSet(convs[c].members) \ SeqToSet(calls'[i].del)
             /\ \A o \in ConvIds \ {c} : convs'[o] = convs[o]
    ]_vars

\* between the two writes, with no other call acting, a conversation that is
\* no channel has neither the member to be removed nor the one to be added
C27_Witness ==
  \E i \in Calls :
    /\ calls[i].op = "updateConversation" /\ calls[i].pc = "uc_next" /\ calls[i].solo
    /\ findById(calls[i].conv).exists
    /\ convs[calls[i].conv].type = CONVERSATION_TYPE.CONFIDENTIAL
    /\ SeqToSet(calls[i].users) \cap Members(calls[i].conv) = {}
    /\ SeqToSet(calls[i].del) \cap Members(calls[i].conv) = {}

\* C28: when the first write of updateConversation (the removal, the addition
\* being left for a second write) fails, the callback receives the error, no
\* conversation-updated event is published and the call reports no success.
C28_FirstWriteFailureIsReported ==
  [][\A i \in Calls :
       /\ calls[i].op = "updateConversation" /\ calls[i].pc = "uc_next"
       /\ calls[i].failed
       /\ findById(calls[i].conv).exists
       /\ calls'[i].pc # "uc_next"
       => /\ calls'[i].pc = "done" /\ calls'[i].err
          /\ calls'[i].pub = <<>>
          /\ calls'[i].res = {}
    ]_vars

\* the operations C29 names
C29_Operations ==
  {"createMessage", "addMemberToConversation", "updateConversation", "updateTopic",
   "makeAllMessageReadedForAnUser", "removeMemberFromConversation"}

\* C29: an operation given the id of a conversation that does not exist (and
\* one whose store write fails) ends by invoking its callback, with a result
\* or an error, and raises no exception: no such call, left alone by the
\* other calls, is ever cut short by an exception.
C29_CallbackNotException ==
  \A i \in Calls :
    /\ calls[i].op \in C29_Operations
    /\ calls[i].solo
    /\ ~findById(calls[i].conv).exists
    => calls[i].pc # "threw"

\* the persisted messages of conversation c
C30_MessagesOf(c) == {m \in messages : m.channel = c}

\* the one with the latest creation timestamp
C30_Latest(c) ==
  CHOOSE m \in C30_MessagesOf(c) : \A o \in C30_MessagesOf(c) : o.creation <= m.creation

\* C30: once the concurrent createMessage calls on a conversation have all
\* completed (each persisted message counted by the conversation, no
\* createMessage in progress), last_message is the summary of the persisted
\* message with the latest creation timestamp, whatever the interleaving.
C30_LastMessageIsLatest ==
  \A c \in ConvIds :
    /\ convs[c].exists
    /\ C30_MessagesOf(c) # {}
    /\ convs[c].numOfMessage = Cardinality(C30_MessagesOf(c))
    /\ \A i \in Calls : calls[i].op = "createMessage" => calls[i].pc = "done"
    => convs[c].last_message = LastMessage(C30_Latest(c))

\* --------------------------------------- adding a member on a faulty store
NextAddMember ==
  \E i \in Calls :
    \/ createConversation(i)
    \/ createMessage(i)
    \/ createMessage_update(i)
    \/ addMemberToConversation(i)
    \/ makeAllMessageReadedForAnUserHelper_update(i)
    \/ Return(i)

SpecAddMember == InitFaulty /\ [][NextAddMember]_vars

\* C31: addMemberToConversation on an existing conversation publishes the
\* member-added event once when the membership write succeeded, while the
\* counter update is still pending; the outcome of the counter update leaves
\* the event as it is; when the membership write fails nothing is published
\* and the callback gets the error; and when the call completes, with no
\* failure and no other call acting, the added member's read counter is the
\* conversation's message count.
C31_MemberAddedEvent ==
  [][\A i \in Calls :
       /\ ( /\ calls[i].pc = "idle"
            /\ calls'[i].op = "addMemberToConversation"
            /\ findById(calls'[i].conv).exists )
          => IF calls'[i].failed
               THEN /\ calls'[i].pc = "done" /\ calls'[i].err
                    /\ calls'[i].pub = <<>>
                    /\ convs' = convs
               ELSE /\ calls'[i].pc = "mark"
                    /\ Len(calls'[i].pub) = 1
                    /\ calls'[i].pub[1].topic = "member_added"
                    /\ calls'[i].pub[1].conversation.id = calls'[i].conv
                    /\ calls'[i].users[1] \in SeqToSet(convs'[calls'[i].conv].members)
       /\ ( /\ calls[i].op = "addMemberToConversation"
            /\ calls[i].pc = "mark" /\ calls'[i].pc # "mark" )
          => /\ calls'[i].pc = "done"
             /\ calls'[i].pub = calls[i].pub /\ Len(calls'[i].pub) = 1
             /\ calls'[i].err = calls'[i].failed
             /\ ( ~calls'[i].err /\ calls'[i].solo /\ findById(calls[i].conv).exists )
                => LET c == convs'[calls[i].conv]
                       u == calls[i].users[1]
                   IN /\ u \in DOMAIN c.numOfReadedMessage
                      /\ c.numOfReadedMessage[u] = c.numOfMessage
    ]_vars

\* a user who was no member has been added to a conversation with a message,
\* the event is out and the counter update has succeeded
C31_Witness ==
  \E i \in Calls :
    /\ CompletedAlone(i, "addMemberToConversation")
    /\ Len(calls[i].pub) = 1
    /\ calls[i].users[1] \notin SeqToSet(calls[i].snap.members)
    /\ calls[i].users[1] \in Members(calls[i].conv)
    /\ findById(calls[i].conv).numOfMessage >= 1

\* the event is out although the counter update has failed
C31_BackfillFailed ==
  \E i \in Calls :
    /\ calls[i].op = "addMemberToConversation" /\ calls[i].pc = "done"
    /\ calls[i].err /\ Len(calls[i].pub) = 1

\* ------------------------------- creating, sending, deleting conversations
NextCount ==
  \E i \in Calls :
    \/ createConversation(i)
    \/ createMessage(i)
    \/ createMessage_update(i)
    \/ makeAllMessageReadedForAnUserHelper_update(i)
    \/ deleteConversation(i)
    \/ deleteConversation_remove(i)
    \/ Return(i)

SpecCount == Init /\ [][NextCount]_vars

\* no operation is in flight
C32_Quiescent == \A i \in Calls : calls[i].pc = "idle"

\* C32: in every quiescent state, for every existing conversation c,
\* numOfMessage is the number of persisted messages whose channel is c, after
\* any sequence of createConversation, createMessage and deleteConversation
\* calls by members and non-members.
C32_CountIsNumberOfMessages ==
  C32_Quiescent
  => \A c \in ConvIds :
       convs[c].exists => convs[c].numOfMessage = Cardinality(C30_MessagesOf(c))

\* the default channels the store holds, moderated ones left aside
C33_DefaultChannels ==
  {c \in AllChannels : convs[c].name = DEFAULT_CHANNEL.name /\ ~convs[c].moderate}

\* C33: the bootstrap of the default channel does not duplicate under
\* concurrency: when a getChannels({moderate: false}) call that found no
\* channel and created the default one completes, the store holds no default
\* channel but the one it created and returns, whatever other getChannels
\* call overlapped with it.
C33_OneDefaultChannel ==
  \A i \in Calls :
    /\ calls[i].op = "getChannels" /\ calls[i].pc = "done" /\ ~calls[i].err
    /\ ~calls[i].moderate
    /\ calls[i].conv # NoSuchConv
    => /\ C33_DefaultChannels \subseteq {calls[i].conv}
       /\ calls[i].res = {convs[c] : c \in C33_DefaultChannels}

\* C34: findConversation called with a members filter completes by issuing
\* one store query and raises no exception, for every combination of
\* exactMembersMatch, ignoreMemberFilterForChannel, type and name.
C34_MembersFilterNeverThrows ==
  \A i \in Calls :
    /\ calls[i].op = "findConversation"
    /\ calls[i].opts.membersGiven
    => /\ calls[i].pc = "done"
       /\ calls[i].thrown = NoError
       /\ calls[i].queried
====
